---- MODULE Spec2Model ----
(***************************************************************************)
(* Model of the game generation service (generateGameCode with its retry   *)
(* controller, failure classification and output cleanup), of the          *)
(* GamePreview execution host and of the App component that drives both.   *)
(*                                                                         *)
(* Text (error messages, serialized errors, model output) is a sequence of *)
(* tokens; String.prototype.includes is contiguous sub-sequence search.    *)
(***************************************************************************)
EXTENDS Integers, Sequences, FiniteSets, TLC

\* ------------------------------------------------------------------ bounds
MaxGenerate == 2
MaxUrls == 3
MaxSignals == 3
MaxTextLen == 3
MaxRequests == 2
MaxReentries == 1
MaxPromptLen == 2
MaxRunUrls == 2
MaxRunSignals == 2
MaxPosts == 1

\* ------------------------------------------------------- program constants
maxRetries == 3
baseDelay == 1000
DefaultRetryDelay == 5000

modelsToTry ==
  << "gemini-2.5-flash", "gemini-2.5-flash-lite", "gemma-3-27b",
     "gemma-3-12b", "gemma-3-4b" >>

\* ------------------------------------------------------------ text helpers
Includes(s, sub) ==
  \E i \in 0..(Len(s) - Len(sub)) : SubSeq(s, i + 1, i + Len(sub)) = sub

RECURSIVE Pow2(_)
Pow2(n) == IF n = 0 THEN 1 ELSE 2 * Pow2(n - 1)

\* Math.ceil(a / b) for a >= 0, b > 0
Ceil(a, b) == (a + b - 1) \div b

\* Mutant: only the first entry is listed.
JoinFirstOnly(ss) == IF Len(ss) = 0 THEN << >> ELSE ss[1]

RECURSIVE Join(_)
\* failedModels.join(', ')
Join(ss) ==
  IF Len(ss) = 0 THEN << >>
  ELSE IF Len(ss) = 1 THEN ss[1]
  ELSE ss[1] \o << "," >> \o Join(Tail(ss))

\* ------------------------------------------------------------------ errors
\* An error object: its message, the text of JSON.stringify(error), and the
\* retry hints the two regular expressions of extractRetryDelay can find
\* (in tenths of a second, -1 when the pattern does not match).
NoHint == -1

MkError(message, json, jsonRetryDelay, msgRetryIn) ==
  [ message |-> message, json |-> json,
    jsonRetryDelay |-> jsonRetryDelay, msgRetryIn |-> msgRetryIn ]

\* new Error(message): own properties are not enumerable, so it serializes
\* to "{}".
NewError(message) == MkError(message, << >>, NoHint, NoHint)

Err429 ==
  MkError(<< "429", "Too", "Many", "Requests" >>, << "status", "429" >>,
          NoHint, NoHint)
ErrQuotaRetryIn ==
  MkError(<< "You", "exceeded", "your", "quota", "retry", "in", "10s" >>,
          << >>, NoHint, 100)
ErrQuotaNotFound ==
  MkError(<< "quota", "metric", "not", "found" >>,
          << "status", "429", "retryDelay" >>, 15, NoHint)
Err404 ==
  MkError(<< "404", "model", "is", "not", "found" >>, << "status", "404" >>,
          NoHint, NoHint)
ErrUnsupported ==
  MkError(<< "Model", "unsupported" >>, << "models", "not", "found" >>,
          NoHint, NoHint)
ErrServer ==
  MkError(<< "500", "Internal", "error" >>, << "status", "500" >>,
          NoHint, NoHint)

\* What model.generateContent can reject with.
BackendErrors ==
  { Err429, ErrQuotaRetryIn, ErrQuotaNotFound, Err404, ErrUnsupported,
    ErrServer }

NoError == MkError(<< >>, << >>, NoHint, NoHint)

\* ------------------------------------------------------- retry controller
\* Mutant: no default when the error carries no hint.
extractRetryDelayNoDefault(error) ==
  IF error.jsonRetryDelay # NoHint
    THEN Ceil(error.jsonRetryDelay * 1000, 10)
  ELSE IF error.msgRetryIn # NoHint
    THEN Ceil(error.msgRetryIn * 1000, 10)
  ELSE 0

extractRetryDelay(error) ==
  IF error.jsonRetryDelay # NoHint
    THEN Ceil(error.jsonRetryDelay * 1000, 10)
  ELSE IF error.msgRetryIn # NoHint
    THEN Ceil(error.msgRetryIn * 1000, 10)
  ELSE DefaultRetryDelay

IsRateLimit(error) ==
  \/ Includes(error.message, << "429" >>)
  \/ Includes(error.message, << "quota" >>)
  \/ Includes(error.message, << "rate", "limit" >>)
  \/ Includes(error.json, << "429" >>)

\* Mutant: no exponential term.
backoffDelayFlat(error, attempt) == extractRetryDelay(error) + baseDelay

backoffDelay(error, attempt) ==
  extractRetryDelay(error) + (baseDelay * Pow2(attempt))

RateLimitExceeded(error) ==
  NewError(<< "Rate", "limit", "exceeded.", "Please", "wait", "before",
              "trying", "again.", "Check", "your", "quota", "at",
              "https://ai.dev/usage?tab=rate-limit.", "Original", "error:" >>
           \o error.message)

\* Mutant: off by one, a single retry.
retryCatchOneRetry(error, attempt) ==
  IF IsRateLimit(error)
    THEN IF attempt < maxRetries - 2
           THEN [ do |-> "sleep", delay |-> backoffDelay(error, attempt),
                  error |-> NoError ]
           ELSE [ do |-> "exhausted", delay |-> 0,
                  error |-> RateLimitExceeded(error) ]
    ELSE [ do |-> "rethrown", delay |-> 0, error |-> error ]

\* Mutant: every error leaves wrapped in the exhaustion error.
retryCatchWrapAll(error, attempt) ==
  IF IsRateLimit(error)
    THEN IF attempt < maxRetries - 1
           THEN [ do |-> "sleep", delay |-> backoffDelay(error, attempt),
                  error |-> NoError ]
           ELSE [ do |-> "exhausted", delay |-> 0,
                  error |-> RateLimitExceeded(error) ]
    ELSE [ do |-> "rethrown", delay |-> 0,
           error |-> RateLimitExceeded(error) ]

\* Mutant: off by one the other way, a retry after the last attempt.
retryCatchExtraRetry(error, attempt) ==
  IF IsRateLimit(error)
    THEN IF attempt < maxRetries
           THEN [ do |-> "sleep", delay |-> backoffDelay(error, attempt),
                  error |-> NoError ]
           ELSE [ do |-> "exhausted", delay |-> 0,
                  error |-> RateLimitExceeded(error) ]
    ELSE [ do |-> "rethrown", delay |-> 0, error |-> error ]

\* The catch block of retryWithBackoff for the failure of attempt number
\* attempt (0-based): sleep and retry, throw the exhaustion error, or
\* rethrow.
retryCatch(error, attempt) ==
  IF IsRateLimit(error)
    THEN IF attempt < maxRetries - 1
           THEN [ do |-> "sleep", delay |-> backoffDelay(error, attempt),
                  error |-> NoError ]
           ELSE [ do |-> "exhausted", delay |-> 0,
                  error |-> RateLimitExceeded(error) ]
    ELSE [ do |-> "rethrown", delay |-> 0, error |-> error ]

\* ------------------------------------------- orchestrator classification
IsNotFound(error) ==
  \/ Includes(error.message, << "404" >>)
  \/ Includes(error.message, << "not", "found" >>)
  \/ Includes(error.message, << "is", "not", "found" >>)
  \/ Includes(error.json, << "404" >>)
  \/ Includes(error.json, << "not", "found" >>)

QuotaEntry(modelName) == << modelName, "(", "quota", "exceeded", ")" >>
NotFoundEntry(modelName) == << modelName >>

\* Mutant: every failure falls through to the next model.
classifyNeverThrows(error) ==
  IF IsNotFound(error) THEN "notFound" ELSE "quota"

\* The catch block of the candidate loop: which entry is pushed on
\* failedModels, or "throw".
classify(error) ==
  IF IsNotFound(error) THEN "notFound"
  ELSE IF IsRateLimit(error) THEN "quota"
  ELSE "throw"

\* -------------------------------------------------- aggregated diagnostic
hasQuotaErrors(failed) ==
  \E i \in 1..Len(failed) : Includes(failed[i], << "quota" >>)

\* Mutant: not-found entries are looked up by a 404 marker they never carry.
has404ErrorsByMarker(failed) ==
  \E i \in 1..Len(failed) : Includes(failed[i], << "404" >>)

has404Errors(failed) ==
  \E i \in 1..Len(failed) : ~Includes(failed[i], << "quota" >>)

MixedHead ==
  << "All", "models", "failed.", "Some", "models", "had", "quota", "issues,",
     "others", "were", "not", "found.", "Tried:" >>
QuotaHead == << "All", "models", "exceeded", "quota", "limits.", "Tried:" >>
NotFoundHead == << "All", "models", "failed", "(404", "errors).", "Tried:" >>
NoneHead == << "All", "model", "attempts", "failed." >>

MixedAdvice == << "Check", "your", "quota", "and", "API", "key", "permissions" >>
QuotaAdvice == << "Wait", "before", "trying", "again" >>
NotFoundAdvice == << "Check", "your", "API", "key", "permissions" >>

LastErrorText(error) ==
  << "Last", "error:" >>
  \o (IF Len(error.message) > 0 THEN error.message
      ELSE << "Unknown", "error" >>)

errorMsg(failed, error) ==
  IF hasQuotaErrors(failed) /\ has404Errors(failed)
    THEN MixedHead \o Join(failed) \o MixedAdvice \o LastErrorText(error)
  ELSE IF hasQuotaErrors(failed)
    THEN QuotaHead \o Join(failed) \o QuotaAdvice \o LastErrorText(error)
  ELSE IF has404Errors(failed)
    THEN NotFoundHead \o Join(failed) \o NotFoundAdvice \o LastErrorText(error)
  ELSE NoneHead \o LastErrorText(error)

\* Mutant: the outer catch drops the message of what it caught.
outerCatchGeneric(error) ==
  NewError(<< "Failed", "to", "generate", "game", "code." >>)

\* Mutant: the outer catch rethrows what it caught.
outerCatchRethrow(error) == error

\* The outer catch of generateGameCode: a fresh Error carrying the message.
outerCatch(error) ==
  NewError(IF Len(error.message) > 0 THEN error.message
           ELSE << "Failed", "to", "generate", "game", "code." >>)

\* ---------------------------------------------------------- output cleanup
\* The token standing for the three-backquote markdown fence.
Fence == "[fence]"
IsWs(t) == t \in { " ", "\n" }
StartMarkers == { "<!DOCTYPE html>", "<html>", "<canvas>" }

RECURSIVE DropWs(_)
DropWs(t) == IF Len(t) > 0 /\ IsWs(t[1]) THEN DropWs(Tail(t)) ELSE t

RECURSIVE DropWsEnd(_)
DropWsEnd(t) ==
  IF Len(t) > 0 /\ IsWs(t[Len(t)]) THEN DropWsEnd(SubSeq(t, 1, Len(t) - 1))
  ELSE t

\* text.replace(/^[fence]html\s*/i, '')
StripFenceHtml(t) ==
  IF Len(t) >= 2 /\ t[1] = Fence /\ t[2] = "html"
    THEN DropWs(SubSeq(t, 3, Len(t)))
    ELSE t

\* text.replace(/^[fence]\s*/i, '')
StripFence(t) ==
  IF Len(t) >= 1 /\ t[1] = Fence THEN DropWs(Tail(t)) ELSE t

\* text.replace(/[fence]\s*$/g, ''): a fence followed only by whitespace up to
\* the end of the text.
StripFenceAtEnd(t) ==
  LET u == DropWsEnd(t)
  IN IF Len(u) > 0 /\ u[Len(u)] = Fence THEN SubSeq(u, 1, Len(u) - 1) ELSE t

\* End (exclusive of the tokens kept) of the match of \s*$ in multiline mode
\* started at position i: the whole whitespace run when it reaches the end
\* of the text, else the run up to its last line break; 0 when no match.
RECURSIVE WsRunEnd(_, _)
WsRunEnd(t, i) == IF i <= Len(t) /\ IsWs(t[i]) THEN WsRunEnd(t, i + 1) ELSE i

LineEndAfter(t, i) ==
  LET e == WsRunEnd(t, i)
      nls == { j \in i..(e - 1) : t[j] = "\n" }
  IN IF e > Len(t) THEN e
     ELSE IF nls = {} THEN 0
     ELSE CHOOSE j \in nls : \A k \in nls : k <= j

\* text.replace(/[fence]\s*$/gm, '')
RECURSIVE StripFenceAtLineEnd(_, _)
StripFenceAtLineEnd(t, i) ==
  IF i > Len(t) THEN << >>
  ELSE IF t[i] = Fence /\ LineEndAfter(t, i + 1) # 0
    THEN StripFenceAtLineEnd(t, LineEndAfter(t, i + 1))
    ELSE << t[i] >> \o StripFenceAtLineEnd(t, i + 1)

\* Mutant: the text before the start marker is kept.
CutBeforeStartKeepsAll(t) == t

\* htmlStartMatch: drop what precedes the first start marker.
CutBeforeStart(t) ==
  LET hits == { i \in 1..Len(t) : t[i] \in StartMarkers }
  IN IF hits = {} THEN t
     ELSE LET idx == (CHOOSE i \in hits : \A j \in hits : i <= j) - 1
          IN IF idx > 0 THEN SubSeq(t, idx + 1, Len(t)) ELSE t

\* lastTagMatch = text.match(/<\/html>\s*$/i);
\* text.substring(0, lastTagMatch.index + lastTagMatch[0].length)
CutAfterEnd(t) ==
  LET hits == { i \in 1..Len(t) :
                  t[i] = "</html>" /\ WsRunEnd(t, i + 1) > Len(t) }
  IN IF hits = {} THEN t
     ELSE LET idx == (CHOOSE i \in hits : \A j \in hits : i <= j) - 1
              len == Len(t) - idx
          IN SubSeq(t, 1, idx + len)

\* Mutant: only leading whitespace is removed.
TrimStartOnly(t) == DropWs(t)

\* String.prototype.trim
Trim(t) == DropWsEnd(DropWs(t))

Sanitize(raw) ==
  LET t1 == StripFenceHtml(raw)
      t2 == StripFence(t1)
      t3 == StripFenceAtEnd(t2)
      t4 == StripFenceAtLineEnd(t3, 1)
      t5 == CutBeforeStart(t4)
      t6 == CutAfterEnd(t5)
  IN Trim(t6)

\* What response.text() can hold.
RawTexts ==
  { << "<!DOCTYPE html>", "<canvas>", "</html>" >>,
    << Fence, "html", "\n", "<!DOCTYPE html>", "</html>", "\n", Fence >>,
    << "Here", "is", " ", "<html>", "</html>", "\n" >> }

\* ------------------------------------------------------- prompt composer
\* previousCode?: string, as a record: present is FALSE for undefined.
NoCode == [ present |-> FALSE, text |-> << >> ]
SomeCode(text) == [ present |-> TRUE, text |-> text ]

\* if (previousCode): undefined and the empty string are both falsy.
TruthyCode(previousCode) == previousCode.present /\ previousCode.text # << >>

EditHead ==
  << "\n", "I have an existing game code. I want to modify it.", "\n",
     "REQUEST:" >>
EditMiddle == << "\n", "EXISTING CODE:", "\n" >>
EditTail ==
  << "\n",
     "IMPORTANT: Modify the existing code while maintaining all working functionality.",
     "\n" >>

NewHead == << "\n" >>
NewTail ==
  << "\n", "CRITICAL: Generate a complete, working HTML game.", "\n",
     "Return ONLY the raw HTML code, no markdown, no explanations, no code blocks.",
     "\n" >>

\* Mutant: the edit framing is used whether or not there is previous code.
finalPromptAlwaysEdit(prompt_, previousCode) ==
  EditHead \o prompt_ \o EditMiddle \o previousCode.text \o EditTail

\* finalPrompt of generateGameCode(prompt, previousCode).
finalPrompt(prompt_, previousCode) ==
  IF TruthyCode(previousCode)
    THEN EditHead \o prompt_ \o EditMiddle \o previousCode.text \o EditTail
    ELSE NewHead \o prompt_ \o NewTail

\* =================================================================== state
VARIABLES
  pc,            \* where generateGameCode is suspended:
                 \*   "idle"  not called
                 \*   "ready" in the candidate loop, before calling fn()
                 \*   "await" model.generateContent in flight
                 \*   "sleep" in the backoff setTimeout
                 \*   "done"  promise settled
  modelIdx,      \* position of modelName in modelsToTry (1-based)
  attempt,       \* loop variable of retryWithBackoff
  lastError,     \* local lastError
  failedModels,  \* local failedModels
  result,        \* settlement of the promise generateGameCode returned
  inFlight,      \* number of generateContent calls not yet settled
  invoked,       \* history: model positions of the generateContent calls
  responses,     \* history: settlements seen by the current retryWithBackoff
  delays,        \* history: setTimeout delays of the current retryWithBackoff
  retryOutcome,  \* history: how the current retryWithBackoff ended
  nGen           \* number of generateGameCode calls so far

genVars ==
  << pc, modelIdx, attempt, lastError, failedModels, result, inFlight,
     invoked, responses, delays, retryOutcome, nGen >>

\* The GamePreview component.
VARIABLES
  mounted,     \* the GamePreview component is mounted
  code,        \* prop code
  isPaused,    \* prop isPaused
  cleanupUrl,  \* url captured by the pending cleanup of the code effect
               \* (0: the effect returned no cleanup)
  iframeSrc,   \* iframeRef.current.src (0: never set)
  nextUrl,     \* next object URL that URL.createObjectURL hands out
  urlLog,      \* history: createObjectURL / revokeObjectURL calls
  signals      \* history: type of every message posted to the iframe

hostVars ==
  << mounted, code, isPaused, cleanupUrl, iframeSrc, nextUrl, urlLog,
     signals >>


\* Module initialisation of the service (getApiKey, genAI).
VARIABLES
  env,         \* import.meta.env: [ VITE_API_KEY, API_KEY ], "" when unset
  genAI        \* the module-level client: "unloaded" before the module is
               \* evaluated, "ready" once constructed, "failed" when
               \* getApiKey threw

cfgVars == << env, genAI >>

\* The output cleanup taken alone.
VARIABLES
  cleanPc,     \* "raw", "once", "twice": how often the cleanup was applied
  rawIn,       \* the text response.text() returned
  clean,       \* the cleanup of rawIn
  cleanTwice   \* the cleanup of clean

cleanVars == << cleanPc, rawIn, clean, cleanTwice >>

\* The prompt composition taken alone.
VARIABLES
  composePc,     \* "args" before, "composed" after the composition
  userText,      \* argument prompt of generateGameCode
  priorSource,   \* argument previousCode of generateGameCode
  composed       \* local finalPrompt

compVars == << composePc, userText, priorSource, composed >>

\* Two runs of GamePreview on the same inputs, each with its own sandboxed
\* program.
VARIABLES
  runs,          \* run number -> [ host, box ]: the state of GamePreview and
                 \* of the program in its iframe
  lastInput      \* history: the last render or unmount of GamePreview

runVars == << runs, lastInput >>

\* The orchestrator variants of the source, run side by side.
VARIABLES
  variants       \* variant name -> state of its generateGameCode

variantVars == << variants >>

\* State of the parts that are studied alone.
sideVars == << compVars, runVars, variantVars >>

VARIABLES
  previousStatus,  \* history: how the generateGameCode call before the
                   \* current one settled ("none" for the first call)
  fontLoadPromise  \* module-level cache of loadCoolveticaFont: "null",
                   \* or what the one fetch of the font came to

histVars == << previousStatus, fontLoadPromise >>

auxVars == << sideVars, histVars >>

\* The App component.
VARIABLES
  view,        \* state view
  gameCode,    \* state gameCode (Null before the first game)
  appError,    \* state error (Null when none)
  showCode,    \* state showCode
  appPaused,   \* state isPaused of App, handed to GamePreview as a prop
  prompt,      \* state prompt (the landing input)
  editPrompt,  \* state editPrompt (the edit input)
  requests,    \* handleGenerate calls suspended on await generateGameCode
  settled,     \* history: the settlements handleGenerate resumed with
  nReq         \* number of generateGameCode calls handleGenerate made

appVars ==
  << view, gameCode, appError, showCode, appPaused, prompt, editPrompt,
     requests, settled, nReq >>

\* What an action of generateGameCode leaves alone, what an action of
\* GamePreview leaves alone, and what an action of App leaves alone.
nonGenVars == << hostVars, cfgVars, cleanVars, appVars, auxVars >>
nonHostVars == << genVars, cfgVars, cleanVars, appVars, auxVars >>
nonAppVars == << genVars, cfgVars, cleanVars, auxVars >>

vars == << genVars, hostVars, cfgVars, cleanVars, appVars, auxVars >>

Pending == [ status |-> "pending", text |-> << >>, error |-> NoError ]
Ok(text) == [ status |-> "ok", text |-> text, error |-> NoError ]
Err(error) == [ status |-> "err", text |-> << >>, error |-> error ]

Resolved(raw) == [ ok |-> TRUE, text |-> raw, error |-> NoError ]
Rejected(error) == [ ok |-> FALSE, text |-> << >>, error |-> error ]

\* ------------------------------------------------- module initialisation
Unset == ""
Keys == { Unset, "key" }

\* Mutant: a missing key is replaced by a placeholder instead of throwing.
getApiKeyPlaceholder(e) ==
  LET apiKey == IF e.VITE_API_KEY # Unset THEN e.VITE_API_KEY ELSE e.API_KEY
  IN IF apiKey = Unset
       THEN [ threw |-> FALSE, apiKey |-> "placeholder" ]
       ELSE [ threw |-> FALSE, apiKey |-> apiKey ]

\* getApiKey: VITE_API_KEY || API_KEY, throwing when neither is set.
getApiKey(e) ==
  LET apiKey == IF e.VITE_API_KEY # Unset THEN e.VITE_API_KEY ELSE e.API_KEY
  IN IF apiKey = Unset
       THEN [ threw |-> TRUE, apiKey |-> Unset ]
       ELSE [ threw |-> FALSE, apiKey |-> apiKey ]

CfgInit ==
  /\ env = [ VITE_API_KEY |-> "key", API_KEY |-> Unset ]
  /\ genAI = "unloaded"

\* Any configuration of the two variables.
CfgInitAny ==
  /\ env \in [ VITE_API_KEY : Keys, API_KEY : Keys ]
  /\ genAI = "unloaded"

\* The module is evaluated: const genAI = new GoogleGenerativeAI(getApiKey()).
\* When getApiKey throws, the module does not load and exports nothing.
LoadModule ==
  /\ genAI = "unloaded"
  /\ genAI' = IF getApiKey(env).threw THEN "failed" ELSE "ready"
  /\ UNCHANGED << env, genVars, hostVars, cleanVars, appVars, auxVars >>

GenInit ==
  /\ pc = "idle"
  /\ modelIdx = 1
  /\ attempt = 0
  /\ lastError = NoError
  /\ failedModels = << >>
  /\ result = Pending
  /\ inFlight = 0
  /\ invoked = << >>
  /\ responses = << >>
  /\ delays = << >>
  /\ retryOutcome = "none"
  /\ nGen = 0

\* Mutant: failedModels is kept from the call before.
GenerateKeepsRecord ==
  /\ genAI = "ready"
  /\ pc \in { "idle", "done" }
  /\ nGen < MaxGenerate
  /\ nGen' = nGen + 1
  /\ pc' = "ready"
  /\ modelIdx' = 1
  /\ attempt' = 0
  /\ lastError' = NoError
  /\ failedModels' = failedModels
  /\ result' = Pending
  /\ invoked' = << >>
  /\ responses' = << >>
  /\ delays' = << >>
  /\ retryOutcome' = "none"
  /\ previousStatus' = IF nGen = 0 THEN "none" ELSE result.status
  /\ UNCHANGED << inFlight, fontLoadPromise >>
  /\ UNCHANGED << hostVars, cfgVars, cleanVars, appVars, sideVars >>

\* generateGameCode(prompt, previousCode) is called: fresh locals, the loop
\* is entered and suspends on getSystemInstruction().
Generate ==
  /\ genAI = "ready"
  /\ pc \in { "idle", "done" }
  /\ nGen < MaxGenerate
  /\ nGen' = nGen + 1
  /\ pc' = "ready"
  /\ modelIdx' = 1
  /\ attempt' = 0
  /\ lastError' = NoError
  /\ failedModels' = << >>
  /\ result' = Pending
  /\ invoked' = << >>
  /\ responses' = << >>
  /\ delays' = << >>
  /\ retryOutcome' = "none"
  /\ previousStatus' = IF nGen = 0 THEN "none" ELSE result.status
  /\ UNCHANGED << inFlight, fontLoadPromise >>
  /\ UNCHANGED << hostVars, cfgVars, cleanVars, appVars, sideVars >>

\* loadCoolveticaFont with the cache in state cache: the cached promise, or
\* one fetch whose result, the encoded font or '' when the fetch failed, is
\* cached for good.
loadCoolveticaFont(cache) ==
  IF cache # "null" THEN { cache } ELSE { "base64", "empty" }

\* The loop body up to the first fn(): getSystemInstruction is awaited,
\* retryWithBackoff starts at attempt 0 and calls
\* model.generateContent(finalPrompt).
Invoke ==
  /\ pc = "ready"
  /\ fontLoadPromise' \in loadCoolveticaFont(fontLoadPromise)
  /\ attempt' = 0
  /\ responses' = << >>
  /\ delays' = << >>
  /\ retryOutcome' = "pending"
  /\ invoked' = Append(invoked, modelIdx)
  /\ inFlight' = inFlight + 1
  /\ pc' = "await"
  /\ UNCHANGED << modelIdx, lastError, failedModels, result, nGen >>
  /\ UNCHANGED << hostVars, cfgVars, cleanVars, appVars, sideVars,
                  previousStatus >>

\* Mutant: the response text is returned without cleanup.
ResolveRaw(raw) ==
  /\ pc = "await"
  /\ inFlight' = inFlight - 1
  /\ responses' = Append(responses, Resolved(raw))
  /\ retryOutcome' = "ok"
  /\ result' = Ok(raw)
  /\ pc' = "done"
  /\ UNCHANGED << modelIdx, attempt, lastError, failedModels, invoked,
                  delays, nGen >>
  /\ UNCHANGED nonGenVars

\* generateContent resolves: the text is cleaned up and returned.
Resolve(raw) ==
  /\ pc = "await"
  /\ inFlight' = inFlight - 1
  /\ responses' = Append(responses, Resolved(raw))
  /\ retryOutcome' = "ok"
  /\ result' = Ok(Sanitize(raw))
  /\ pc' = "done"
  /\ UNCHANGED << modelIdx, attempt, lastError, failedModels, invoked,
                  delays, nGen >>
  /\ UNCHANGED nonGenVars

\* The catch block of the candidate loop for the error retryWithBackoff
\* threw, followed by the loop step and, after the last candidate, by the
\* aggregated diagnostic and the outer catch.
Caught(error) ==
  LET class == classify(error)
      failed == IF class = "notFound"
                  THEN Append(failedModels,
                              NotFoundEntry(modelsToTry[modelIdx]))
                  ELSE Append(failedModels, QuotaEntry(modelsToTry[modelIdx]))
  IN /\ lastError' = error
     /\ IF class = "throw"
          THEN /\ result' = Err(outerCatch(error))
               /\ pc' = "done"
               /\ UNCHANGED << failedModels, modelIdx >>
          ELSE /\ failedModels' = failed
               /\ modelIdx' = modelIdx + 1
               /\ IF modelIdx + 1 <= Len(modelsToTry)
                    THEN /\ pc' = "ready"
                         /\ UNCHANGED result
                    ELSE /\ pc' = "done"
                         /\ result' =
                              Err(outerCatch(NewError(errorMsg(failed, error))))

\* generateContent rejects: the catch block of retryWithBackoff runs, and
\* when it throws, the catch block of the candidate loop.
Reject(error) ==
  /\ pc = "await"
  /\ inFlight' = inFlight - 1
  /\ responses' = Append(responses, Rejected(error))
  /\ LET r == retryCatch(error, attempt)
     IN IF r.do = "sleep"
          THEN /\ delays' = Append(delays, r.delay)
               /\ pc' = "sleep"
               /\ UNCHANGED << modelIdx, lastError, failedModels, result,
                               retryOutcome >>
          ELSE /\ retryOutcome' = r.do
               /\ Caught(r.error)
               /\ UNCHANGED delays
  /\ UNCHANGED << attempt, invoked, nGen >>
  /\ UNCHANGED nonGenVars

\* Mutant: the promise of the backoff timer is never resolved.
TimerFiresNever ==
  /\ pc = "sleep"
  /\ pc' = "asleep"
  /\ UNCHANGED << modelIdx, attempt, lastError, failedModels, result,
                  inFlight, invoked, responses, delays, retryOutcome, nGen >>
  /\ UNCHANGED nonGenVars

\* The backoff timer fires: next iteration of retryWithBackoff, fn() again.
TimerFires ==
  /\ pc = "sleep"
  /\ attempt' = attempt + 1
  /\ invoked' = Append(invoked, modelIdx)
  /\ inFlight' = inFlight + 1
  /\ pc' = "await"
  /\ UNCHANGED << modelIdx, lastError, failedModels, result, responses,
                  delays, retryOutcome, nGen >>
  /\ UNCHANGED nonGenVars

\* ------------------------------------------------------------ GamePreview
Sources == { "", "<html>pong</html>", "<html>snake</html>" }

Created(log) == { log[i].url : i \in { j \in 1..Len(log) : log[j].op = "create" } }
Revoked(log) == { log[i].url : i \in { j \in 1..Len(log) : log[j].op = "revoke" } }
LiveUrls == Created(urlLog) \ Revoked(urlLog)

HostInit ==
  /\ mounted = FALSE
  /\ code = ""
  /\ isPaused = FALSE
  /\ cleanupUrl = 0
  /\ iframeSrc = 0
  /\ nextUrl = 1
  /\ urlLog = << >>
  /\ signals = << >>

\* Mutant: the code effect returns no cleanup.
RunCleanupNothing(log, url) == log

\* The cleanup function the code effect returned, if any.
RunCleanup(log, url) ==
  IF url # 0 THEN Append(log, [ op |-> "revoke", url |-> url ]) ELSE log

\* The code effect, run after the cleanup of its previous run: the state
\* of the url bookkeeping after the effect body for source src.
CodeEffect(log, src, url, oldSrc) ==
  IF src # ""
    THEN [ log |-> Append(log, [ op |-> "create", url |-> url ]),
           cleanupUrl |-> url, iframeSrc |-> url, nextUrl |-> url + 1 ]
    ELSE [ log |-> log, cleanupUrl |-> 0, iframeSrc |-> oldSrc,
           nextUrl |-> url ]

\* Mutant: the two message types are swapped.
PauseEffectSwapped(paused) == IF paused THEN "resume" ELSE "pause"

\* The isPaused effect: one message of type pause or resume.
PauseEffect(paused) == IF paused THEN "pause" ELSE "resume"

\* First render with props (src, paused): a fresh iframe, then both
\* effects in declaration order.
Mount(src, paused) ==
  /\ ~mounted
  /\ nextUrl <= MaxUrls
  /\ Len(signals) < MaxSignals
  /\ mounted' = TRUE
  /\ code' = src
  /\ isPaused' = paused
  /\ LET e == CodeEffect(urlLog, src, nextUrl, 0)
     IN /\ urlLog' = e.log
        /\ cleanupUrl' = e.cleanupUrl
        /\ iframeSrc' = e.iframeSrc
        /\ nextUrl' = e.nextUrl
  /\ signals' = Append(signals, PauseEffect(paused))
  /\ UNCHANGED nonHostVars

\* Re-render with a different code prop: cleanup of the previous run of
\* the code effect, then the effect again.
SetCode(src) ==
  /\ mounted
  /\ src # code
  /\ nextUrl <= MaxUrls
  /\ code' = src
  /\ LET e == CodeEffect(RunCleanup(urlLog, cleanupUrl), src, nextUrl,
                         iframeSrc)
     IN /\ urlLog' = e.log
        /\ cleanupUrl' = e.cleanupUrl
        /\ iframeSrc' = e.iframeSrc
        /\ nextUrl' = e.nextUrl
  /\ UNCHANGED << mounted, isPaused, signals >>
  /\ UNCHANGED nonHostVars

\* Re-render with a different isPaused prop: the isPaused effect runs.
SetSuspended(flag) ==
  /\ mounted
  /\ flag # isPaused
  /\ Len(signals) < MaxSignals
  /\ isPaused' = flag
  /\ signals' = Append(signals, PauseEffect(flag))
  /\ UNCHANGED << mounted, code, cleanupUrl, iframeSrc, nextUrl, urlLog >>
  /\ UNCHANGED nonHostVars

\* Mutant: unmounting runs no cleanup.
UnmountNoCleanup ==
  /\ mounted
  /\ mounted' = FALSE
  /\ cleanupUrl' = 0
  /\ iframeSrc' = 0
  /\ UNCHANGED << code, isPaused, nextUrl, signals, urlLog >>
  /\ UNCHANGED nonHostVars

\* The component unmounts: pending cleanups run.
Unmount ==
  /\ mounted
  /\ mounted' = FALSE
  /\ urlLog' = RunCleanup(urlLog, cleanupUrl)
  /\ cleanupUrl' = 0
  /\ iframeSrc' = 0
  /\ UNCHANGED << code, isPaused, nextUrl, signals >>
  /\ UNCHANGED nonHostVars

\* ------------------------------------------------------ cleanup alone
TextTokens ==
  { Fence, "html", " ", "\n", "Here", "<html>", "<canvas>", "</html>" }

Texts == UNION { [ 1..n -> TextTokens ] : n \in 0..MaxTextLen }

CleanInit ==
  /\ cleanPc = "raw"
  /\ rawIn = << >>
  /\ clean = << >>
  /\ cleanTwice = << >>

CleanInitAny ==
  /\ cleanPc = "raw"
  /\ rawIn \in Texts
  /\ clean = << >>
  /\ cleanTwice = << >>

\* The cleanup of lines 266-288 applied to the response text.
Clean ==
  /\ cleanPc = "raw"
  /\ clean' = Sanitize(rawIn)
  /\ cleanPc' = "once"
  /\ UNCHANGED << rawIn, cleanTwice, genVars, hostVars, cfgVars, appVars,
                  auxVars >>

\* The cleanup applied to its own output.
CleanAgain ==
  /\ cleanPc = "once"
  /\ cleanTwice' = Sanitize(clean)
  /\ cleanPc' = "twice"
  /\ UNCHANGED << rawIn, clean, genVars, hostVars, cfgVars, appVars,
                  auxVars >>

\* ------------------------------------------ GamePreview and its sandbox
\* The state of GamePreview as a record.
HostState(m, c, p, cu, src, nu, log, sig) ==
  [ mounted |-> m, code |-> c, isPaused |-> p, cleanupUrl |-> cu,
    iframeSrc |-> src, nextUrl |-> nu, urlLog |-> log, signals |-> sig ]

HostStart == HostState(FALSE, "", FALSE, 0, 0, 1, << >>, << >>)

\* First render with props (src, paused): both effects in declaration
\* order.
MountOf(h, src, paused) ==
  LET e == CodeEffect(h.urlLog, src, h.nextUrl, 0)
  IN HostState(TRUE, src, paused, e.cleanupUrl, e.iframeSrc, e.nextUrl,
               e.log, Append(h.signals, PauseEffect(paused)))

\* Re-render with a different code prop: cleanup, then the code effect.
SetCodeOf(h, src) ==
  LET e == CodeEffect(RunCleanup(h.urlLog, h.cleanupUrl), src, h.nextUrl,
                      h.iframeSrc)
  IN HostState(h.mounted, src, h.isPaused, e.cleanupUrl, e.iframeSrc,
               e.nextUrl, e.log, h.signals)

\* Mutant: the message is posted but the flag keeps its value.
SetSuspendedOfKeepsFlag(h, flag) ==
  HostState(h.mounted, h.code, h.isPaused, h.cleanupUrl, h.iframeSrc,
            h.nextUrl, h.urlLog, Append(h.signals, PauseEffect(flag)))

\* Re-render with a different isPaused prop: the isPaused effect posts
\* its message; nothing is awaited and nothing comes back.
SetSuspendedOf(h, flag) ==
  HostState(h.mounted, h.code, flag, h.cleanupUrl, h.iframeSrc,
            h.nextUrl, h.urlLog, Append(h.signals, PauseEffect(flag)))

\* Unmount: the pending cleanup runs.
UnmountOf(h) ==
  HostState(FALSE, h.code, h.isPaused, 0, 0, h.nextUrl,
            RunCleanup(h.urlLog, h.cleanupUrl), h.signals)

\* Mutant: the host listens to its iframe and adopts what it is told.
OnMessageOfObeys(h, msg) ==
  HostState(h.mounted, h.code, msg = "pause", h.cleanupUrl, h.iframeSrc,
            h.nextUrl, h.urlLog, h.signals)

\* A message event from the iframe reaches the window of the host:
\* neither GamePreview nor App registers a message listener.
OnMessageOf(h, msg) == h

\* The program in the iframe: the url it was loaded from (0: none), how
\* it treats control messages, whether its game loop is stopped, how many
\* of the host's messages it has been handed, how many messages it posted
\* to its parent.
Kinds == { "obedient", "deaf" }
Box(src, kind, paused, seen, posted) ==
  [ src |-> src, kind |-> kind, paused |-> paused, seen |-> seen,
    posted |-> posted ]
NoBox == Box(0, "deaf", FALSE, 0, 0)

SandboxMessages == { "pause", "resume", "score" }

RunsInit ==
  /\ runs = [ i \in { 1, 2 } |-> [ host |-> HostStart, box |-> NoBox ] ]
  /\ lastInput = [ op |-> "none", src |-> "", flag |-> FALSE ]

\* Each action below gives the same input to the host of both runs.
RunMount(src, paused) ==
  LET Step(h) == MountOf(h, src, paused)
  IN /\ ~runs[1].host.mounted
     /\ runs[1].host.nextUrl <= MaxRunUrls
     /\ Len(runs[1].host.signals) < MaxRunSignals
     /\ runs' = [ i \in { 1, 2 } |->
                   [ runs[i] EXCEPT !.host = Step(@) ] ]
     /\ lastInput' = [ op |-> "mount", src |-> src, flag |-> paused ]
     /\ UNCHANGED << genVars, hostVars, cfgVars, cleanVars, appVars,
                     compVars, variantVars,
                  histVars >>

RunSetCode(src) ==
  LET Step(h) == SetCodeOf(h, src)
  IN /\ runs[1].host.mounted
     /\ src # runs[1].host.code
     /\ runs[1].host.nextUrl <= MaxRunUrls
     /\ runs' = [ i \in { 1, 2 } |->
                   [ runs[i] EXCEPT !.host = Step(@) ] ]
     /\ lastInput' = [ op |-> "setCode", src |-> src,
                       flag |-> runs[1].host.isPaused ]
     /\ UNCHANGED << genVars, hostVars, cfgVars, cleanVars, appVars,
                     compVars, variantVars,
                  histVars >>

RunSetSuspended(flag) ==
  LET Step(h) == SetSuspendedOf(h, flag)
  IN /\ runs[1].host.mounted
     /\ flag # runs[1].host.isPaused
     /\ Len(runs[1].host.signals) < MaxRunSignals
     /\ runs' = [ i \in { 1, 2 } |->
                   [ runs[i] EXCEPT !.host = Step(@) ] ]
     /\ lastInput' = [ op |-> "setSuspended", src |-> runs[1].host.code,
                       flag |-> flag ]
     /\ UNCHANGED << genVars, hostVars, cfgVars, cleanVars, appVars,
                     compVars, variantVars,
                  histVars >>

RunUnmount ==
  /\ runs[1].host.mounted
  /\ runs' = [ i \in { 1, 2 } |->
                [ runs[i] EXCEPT !.host = UnmountOf(@) ] ]
  /\ lastInput' = [ op |-> "unmount", src |-> runs[1].host.code,
                    flag |-> runs[1].host.isPaused ]
  /\ UNCHANGED << genVars, hostVars, cfgVars, cleanVars, appVars,
                  compVars, variantVars,
                  histVars >>

\* The iframe of run i finishes loading the document its src points to
\* (or is gone): a program of some kind starts, running; messages posted
\* before this moment never reach it.
BoxLoads(i, kind) ==
  LET h == runs[i].host
  IN /\ runs[i].box.src # h.iframeSrc
     /\ runs' = [ runs EXCEPT ![i].box =
                    IF h.iframeSrc = 0 THEN NoBox
                    ELSE Box(h.iframeSrc, kind, FALSE, Len(h.signals), 0) ]
     /\ UNCHANGED lastInput
     /\ UNCHANGED << genVars, hostVars, cfgVars, cleanVars, appVars,
                     compVars, variantVars,
                  histVars >>

\* The program of run i is handed the next message of its host: it stops
\* or restarts its loop, or ignores the message.
BoxReceives(i) ==
  LET h == runs[i].host
      b == runs[i].box
  IN /\ b.src # 0
     /\ b.src = h.iframeSrc
     /\ b.seen < Len(h.signals)
     /\ runs' = [ runs EXCEPT ![i].box =
                    Box(b.src, b.kind,
                        IF b.kind = "obedient"
                          THEN h.signals[b.seen + 1] = "pause"
                          ELSE b.paused,
                        b.seen + 1, b.posted) ]
     /\ UNCHANGED lastInput
     /\ UNCHANGED << genVars, hostVars, cfgVars, cleanVars, appVars,
                     compVars, variantVars,
                  histVars >>

\* The program of run i posts a message to its parent window.
BoxPosts(i, msg) ==
  LET b == runs[i].box
  IN /\ b.src # 0
     /\ b.posted < MaxPosts
     /\ runs' = [ runs EXCEPT
                    ![i].host = OnMessageOf(@, msg),
                    ![i].box = Box(b.src, b.kind, b.paused, b.seen,
                                   b.posted + 1) ]
     /\ UNCHANGED lastInput
     /\ UNCHANGED << genVars, hostVars, cfgVars, cleanVars, appVars,
                     compVars, variantVars,
                  histVars >>

\* ------------------------------------------ the orchestrator variants
\* The three generateGameCode of the source, run side by side: each is
\* called with the same request, and the k-th generateContent call of each
\* is answered by the same backend outcome.
modelsToTryService ==
  << "gemini-2.5-flash", "gemini-2.5-flash-lite", "gemma-3-27b",
     "gemma-3-12b", "gemma-3-4b" >>

modelsToTryThree ==
  << "gemini-1.5-flash", "gemini-pro", "gemini-1.5-pro-latest" >>

VariantNames == { "complete", "service", "three" }

\* text.replace(/[fence]$/, ''): a fence that ends the text.
StripFenceAtVeryEnd(t) ==
  IF Len(t) > 0 /\ t[Len(t)] = Fence THEN SubSeq(t, 1, Len(t) - 1) ELSE t

\* The cleanup of the service and of the three-candidate variant.
ServiceCleanup(raw) ==
  LET t1 == StripFenceAtVeryEnd(StripFenceHtml(raw))
      t2 == StripFenceAtVeryEnd(StripFence(t1))
  IN Trim(t2)

\* The state of one generateGameCode: suspended on generateContent
\* ("await") or settled ("done"); tries counts the generateContent calls per
\* roster position, delays are the setTimeout delays of the current
\* retryWithBackoff.
VariantIdle(roster) ==
  [ pc |-> "idle", modelIdx |-> 1, attempt |-> 0, failedModels |-> << >>,
    tries |-> [ i \in 1..Len(roster) |-> 0 ], delays |-> << >>,
    status |-> "pending", text |-> << >>, message |-> << >> ]

\* generateGameCode is called and reaches its first generateContent.
VariantCalled(st) ==
  [ st EXCEPT !.pc = "await", !.tries[1] = 1 ]

VariantOk(st, text) ==
  [ st EXCEPT !.pc = "done", !.status = "ok", !.text = text ]

VariantErr(st, error) ==
  [ st EXCEPT !.pc = "done", !.status = "err",
              !.message = outerCatch(error).message ]

\* The loop moves on to the next candidate and calls it.
VariantNext(st, failed) ==
  [ st EXCEPT !.modelIdx = @ + 1, !.attempt = 0, !.delays = << >>,
              !.failedModels = failed, !.tries[st.modelIdx + 1] = 1 ]

\* Mutant: the retry controller of the service variant gives up at once.
retryCatchServiceNoRetry(error, attemptNo) ==
  IF IsRateLimit(error)
    THEN [ do |-> "exhausted", delay |-> 0,
           error |-> RateLimitExceeded(error) ]
    ELSE [ do |-> "rethrown", delay |-> 0, error |-> error ]

\* The catch block of retryWithBackoff in the service variant.
retryCatchService(error, attemptNo) ==
  IF IsRateLimit(error)
    THEN IF attemptNo < maxRetries - 1
           THEN [ do |-> "sleep", delay |-> backoffDelay(error, attemptNo),
                  error |-> NoError ]
           ELSE [ do |-> "exhausted", delay |-> 0,
                  error |-> RateLimitExceeded(error) ]
    ELSE [ do |-> "rethrown", delay |-> 0, error |-> error ]

\* The catch block of the candidate loop in the service variant.
classifyService(error) ==
  IF IsNotFound(error) THEN "notFound"
  ELSE IF IsRateLimit(error) THEN "quota"
  ELSE "throw"

\* The catch block of the candidate loop in the three-candidate variant:
\* only the message is searched.
IsNotFoundThree(error) ==
  \/ Includes(error.message, << "404" >>)
  \/ Includes(error.message, << "not", "found" >>)

\* The complete variant on the outcome o of its pending generateContent.
StepComplete(st, o) ==
  IF o.ok THEN VariantOk(st, Sanitize(o.text))
  ELSE
    LET r == retryCatch(o.error, st.attempt)
        class == classify(r.error)
        name == modelsToTry[st.modelIdx]
        failed == Append(st.failedModels,
                         IF class = "notFound" THEN NotFoundEntry(name)
                         ELSE QuotaEntry(name))
    IN IF r.do = "sleep"
         THEN [ st EXCEPT !.attempt = @ + 1,
                          !.delays = Append(@, r.delay),
                          !.tries[st.modelIdx] = @ + 1 ]
       ELSE IF class = "throw" THEN VariantErr(st, r.error)
       ELSE IF st.modelIdx < Len(modelsToTry) THEN VariantNext(st, failed)
       ELSE VariantErr([ st EXCEPT !.failedModels = failed ],
                       NewError(errorMsg(failed, r.error)))

\* The service variant on the outcome o of its pending generateContent.
StepService(st, o) ==
  IF o.ok THEN VariantOk(st, ServiceCleanup(o.text))
  ELSE
    LET r == retryCatchService(o.error, st.attempt)
        class == classifyService(r.error)
        name == modelsToTryService[st.modelIdx]
        failed == Append(st.failedModels,
                         IF class = "notFound" THEN NotFoundEntry(name)
                         ELSE QuotaEntry(name))
    IN IF r.do = "sleep"
         THEN [ st EXCEPT !.attempt = @ + 1,
                          !.delays = Append(@, r.delay),
                          !.tries[st.modelIdx] = @ + 1 ]
       ELSE IF class = "throw" THEN VariantErr(st, r.error)
       ELSE IF st.modelIdx < Len(modelsToTryService)
         THEN VariantNext(st, failed)
       ELSE VariantErr([ st EXCEPT !.failedModels = failed ],
                       NewError(errorMsg(failed, r.error)))

\* The three-candidate variant on the outcome o of its pending
\* generateContent: no retry controller, no failure record; after the last
\* candidate the last error is thrown.
StepThree(st, o) ==
  IF o.ok THEN VariantOk(st, ServiceCleanup(o.text))
  ELSE IF ~IsNotFoundThree(o.error) THEN VariantErr(st, o.error)
  ELSE IF st.modelIdx < Len(modelsToTryThree)
    THEN VariantNext(st, st.failedModels)
  ELSE VariantErr(st, o.error)

VariantStep(v, st, o) ==
  IF st.pc # "await" THEN st
  ELSE IF v = "complete" THEN StepComplete(st, o)
  ELSE IF v = "service" THEN StepService(st, o)
  ELSE StepThree(st, o)

VariantRoster(v) ==
  IF v = "complete" THEN modelsToTry
  ELSE IF v = "service" THEN modelsToTryService
  ELSE modelsToTryThree

\* What the backend can answer a generateContent call with.
Outcomes ==
  { Resolved(raw) : raw \in RawTexts } \cup
  { Rejected(error) : error \in BackendErrors }

VariantsInit ==
  variants = [ v \in VariantNames |-> VariantIdle(VariantRoster(v)) ]

\* The same request is given to every variant.
CallVariants ==
  /\ \A v \in VariantNames : variants[v].pc = "idle"
  /\ variants' = [ v \in VariantNames |-> VariantCalled(variants[v]) ]
  /\ UNCHANGED << genVars, hostVars, cfgVars, cleanVars, appVars, compVars,
                  runVars, histVars >>

\* The backend answers the pending generateContent call of every variant
\* that still has one with the same outcome.
Answer(o) ==
  /\ \E v \in VariantNames : variants[v].pc = "await"
  /\ variants' = [ v \in VariantNames |-> VariantStep(v, variants[v], o) ]
  /\ UNCHANGED << genVars, hostVars, cfgVars, cleanVars, appVars, compVars,
                  runVars, histVars >>

\* ------------------------------------------------ prompt composition alone
\* What a caller can pass as prompt, the edit framing markers included.
PromptTokens == { "snake", "faster", "REQUEST:", "EXISTING CODE:" }
CodeTokens == { "<html>", "</html>" }

UserTexts == UNION { [ 1..n -> PromptTokens ] : n \in 1..MaxPromptLen }
PriorSources ==
  { NoCode } \cup
  { SomeCode(t) : t \in UNION { [ 1..n -> CodeTokens ] : n \in 0..MaxPromptLen } }

ComposeInit ==
  /\ composePc = "args"
  /\ userText = << "snake" >>
  /\ priorSource = NoCode
  /\ composed = << >>

ComposeInitAny ==
  /\ composePc = "args"
  /\ userText \in UserTexts
  /\ priorSource \in PriorSources
  /\ composed = << >>

\* Lines 140-171 of generateGameCode.
Compose ==
  /\ composePc = "args"
  /\ composed' = finalPrompt(userText, priorSource)
  /\ composePc' = "composed"
  /\ UNCHANGED << userText, priorSource >>
  /\ UNCHANGED << genVars, hostVars, cfgVars, cleanVars, appVars, runVars,
                  variantVars, histVars >>

\* -------------------------------------------------------------------- App
Null == "(null)"
Undefined == "(undefined)"

SUGGESTIONS ==
  { "pong vs ai", "asteroid defense", "flappy square", "snake", "breakout" }

\* What the user can have typed into an input.
Prompts == { "", "  ", "make it faster" }

\* promptText.trim() is the empty string.
Blank(promptText) == promptText \in { "", "  " }

\* JavaScript truthiness of gameCode.
Truthy(g) == g \notin { Null, "" }

\* The messages generateGameCode rejects with; its outer catch never lets
\* an empty one through.
Failures ==
  { "Failed to generate game code.", "All models exceeded quota limits." }

\* err.message || "generation failed"
errText(message) == IF message # "" THEN message ELSE "generation failed"

\* The render of App shows the playing / editing block with its TopBar.
TopBarShown == view \in { "playing", "editing" } /\ Truthy(gameCode)

\* The render of App with state (v, g, s) contains a GamePreview element.
Shown(v, g, s) == v \in { "playing", "editing" } /\ Truthy(g) /\ ~s

AppInit ==
  /\ view = "landing"
  /\ gameCode = Null
  /\ appError = Null
  /\ showCode = FALSE
  /\ appPaused = FALSE
  /\ prompt = ""
  /\ editPrompt = ""
  /\ requests = { }
  /\ settled = << >>
  /\ nReq = 0

\* App is rendered only once the service module it imports has loaded.
AppReady == genAI = "ready"

\* React commits the render of App with state (v, g, s, p): GamePreview is
\* mounted, re-rendered with props (g, p), or unmounted, and its effects
\* and cleanups run.
Render(v, g, s, p) ==
  IF Shown(v, g, s)
    THEN IF ~mounted
           THEN /\ nextUrl <= MaxUrls
                /\ Len(signals) < MaxSignals
                /\ mounted' = TRUE
                /\ code' = g
                /\ isPaused' = p
                /\ LET e == CodeEffect(urlLog, g, nextUrl, 0)
                   IN /\ urlLog' = e.log
                      /\ cleanupUrl' = e.cleanupUrl
                      /\ iframeSrc' = e.iframeSrc
                      /\ nextUrl' = e.nextUrl
                /\ signals' = Append(signals, PauseEffect(p))
           ELSE /\ (g # code => nextUrl <= MaxUrls)
                /\ (p # isPaused => Len(signals) < MaxSignals)
                /\ code' = g
                /\ isPaused' = p
                /\ IF g # code
                     THEN LET e == CodeEffect(RunCleanup(urlLog, cleanupUrl),
                                              g, nextUrl, iframeSrc)
                          IN /\ urlLog' = e.log
                             /\ cleanupUrl' = e.cleanupUrl
                             /\ iframeSrc' = e.iframeSrc
                             /\ nextUrl' = e.nextUrl
                     ELSE UNCHANGED << urlLog, cleanupUrl, iframeSrc, nextUrl >>
                /\ signals' = IF p # isPaused
                                THEN Append(signals, PauseEffect(p))
                                ELSE signals
                /\ UNCHANGED mounted
    ELSE IF mounted
           THEN /\ mounted' = FALSE
                /\ urlLog' = RunCleanup(urlLog, cleanupUrl)
                /\ cleanupUrl' = 0
                /\ iframeSrc' = 0
                /\ UNCHANGED << code, isPaused, nextUrl, signals >>
           ELSE UNCHANGED hostVars

\* handleGenerate(promptText, isEdit) up to its await: the early return
\* for a blank prompt, else previousView is captured, the view becomes
\* generating, the error is cleared and generateGameCode is called.
handleGenerateWithin(limit, promptText, isEdit) ==
  IF Blank(promptText)
    THEN UNCHANGED << appVars, hostVars >>
    ELSE /\ nReq < limit
         /\ nReq' = nReq + 1
         /\ requests' = requests \cup
              { [ id |-> nReq + 1,
                  previousView |-> view,
                  promptText |-> promptText,
                  prior |-> IF isEdit /\ Truthy(gameCode)
                              THEN gameCode ELSE Undefined ] }
         /\ view' = "generating"
         /\ appError' = Null
         /\ UNCHANGED << gameCode, showCode, appPaused, prompt, editPrompt,
                         settled >>
         /\ Render("generating", gameCode, showCode, appPaused)

\* handleGenerate with the number of calls explored capped by MaxRequests.
handleGenerate(promptText, isEdit) ==
  handleGenerateWithin(MaxRequests, promptText, isEdit)

\* The user types into the landing input.
TypePrompt(text) ==
  /\ AppReady
  /\ view = "landing"
  /\ text # prompt
  /\ prompt' = text
  /\ UNCHANGED << view, gameCode, appError, showCode, appPaused, editPrompt,
                  requests, settled, nReq >>
  /\ UNCHANGED hostVars
  /\ UNCHANGED nonAppVars

\* Enter in the landing input, or its arrow button.
SubmitPrompt ==
  /\ AppReady
  /\ view = "landing"
  /\ handleGenerate(prompt, FALSE)
  /\ UNCHANGED nonAppVars

\* A suggestion chip.
Suggest(s) ==
  /\ AppReady
  /\ view = "landing"
  /\ handleGenerate(s, FALSE)
  /\ UNCHANGED nonAppVars

\* The user types into the edit input of the TopBar.
TypeEdit(text) ==
  /\ AppReady
  /\ TopBarShown
  /\ view = "editing"
  /\ text # editPrompt
  /\ editPrompt' = text
  /\ UNCHANGED << view, gameCode, appError, showCode, appPaused, prompt,
                  requests, settled, nReq >>
  /\ UNCHANGED hostVars
  /\ UNCHANGED nonAppVars

\* Enter in the edit input, or its arrow button.
SubmitEdit ==
  /\ AppReady
  /\ TopBarShown
  /\ view = "editing"
  /\ handleGenerate(editPrompt, TRUE)
  /\ UNCHANGED nonAppVars

\* The X button of the edit input.
CancelEdit ==
  /\ AppReady
  /\ TopBarShown
  /\ view = "editing"
  /\ view' = "playing"
  /\ UNCHANGED << gameCode, appError, showCode, appPaused, prompt, editPrompt,
                  requests, settled, nReq >>
  /\ Render("playing", gameCode, showCode, appPaused)
  /\ UNCHANGED nonAppVars

\* The pause / resume button.
TogglePause ==
  /\ AppReady
  /\ TopBarShown
  /\ view = "playing"
  /\ ~showCode
  /\ appPaused' = ~appPaused
  /\ UNCHANGED << view, gameCode, appError, showCode, prompt, editPrompt,
                  requests, settled, nReq >>
  /\ Render(view, gameCode, showCode, ~appPaused)
  /\ UNCHANGED nonAppVars

\* The source / preview button.
ToggleSource ==
  /\ AppReady
  /\ TopBarShown
  /\ view = "playing"
  /\ showCode' = ~showCode
  /\ UNCHANGED << view, gameCode, appError, appPaused, prompt, editPrompt,
                  requests, settled, nReq >>
  /\ Render(view, gameCode, ~showCode, appPaused)
  /\ UNCHANGED nonAppVars

\* The edit button.
EditButton ==
  /\ AppReady
  /\ TopBarShown
  /\ view = "playing"
  /\ view' = "editing"
  /\ UNCHANGED << gameCode, appError, showCode, appPaused, prompt, editPrompt,
                  requests, settled, nReq >>
  /\ Render("editing", gameCode, showCode, appPaused)
  /\ UNCHANGED nonAppVars

\* The new button.
NewButton ==
  /\ AppReady
  /\ TopBarShown
  /\ view = "playing"
  /\ prompt' = ""
  /\ gameCode' = Null
  /\ view' = "landing"
  /\ appPaused' = FALSE
  /\ UNCHANGED << appError, showCode, editPrompt, requests, settled, nReq >>
  /\ Render("landing", Null, showCode, FALSE)
  /\ UNCHANGED nonAppVars

\* A click on the logo of the TopBar.
LogoClick ==
  /\ AppReady
  /\ TopBarShown
  /\ prompt' = ""
  /\ gameCode' = Null
  /\ view' = "landing"
  /\ UNCHANGED << appError, showCode, appPaused, editPrompt, requests, settled,
                  nReq >>
  /\ Render("landing", Null, showCode, appPaused)
  /\ UNCHANGED nonAppVars

\* The settlements still pending when request r settles.
Others(r) == { q.id : q \in requests \ { r } }

\* Mutant: a later success does not replace the game an earlier one set.
SettleOkFirstWins(r, c) ==
  LET g == IF \E i \in 1..Len(settled) : settled[i].ok THEN gameCode ELSE c
  IN /\ AppReady
     /\ r \in requests
     /\ requests' = requests \ { r }
     /\ settled' = Append(settled, [ id |-> r.id, ok |-> TRUE, value |-> c,
                                     pending |-> Others(r) ])
     /\ gameCode' = g
     /\ view' = "playing"
     /\ editPrompt' = ""
     /\ UNCHANGED << appError, showCode, appPaused, prompt, nReq >>
     /\ Render("playing", g, showCode, appPaused)
     /\ UNCHANGED nonAppVars

\* generateGameCode resolves with code c: handleGenerate resumes in its
\* try block.
SettleOk(r, c) ==
  /\ AppReady
  /\ r \in requests
  /\ requests' = requests \ { r }
  /\ settled' = Append(settled, [ id |-> r.id, ok |-> TRUE, value |-> c,
                                  pending |-> Others(r) ])
  /\ gameCode' = c
  /\ view' = "playing"
  /\ editPrompt' = ""
  /\ UNCHANGED << appError, showCode, appPaused, prompt, nReq >>
  /\ Render("playing", c, showCode, appPaused)
  /\ UNCHANGED nonAppVars

\* Mutant: the catch block always returns to the landing view.
SettleErrToLanding(r, message) ==
  LET v == "landing"
  IN /\ AppReady
     /\ r \in requests
     /\ requests' = requests \ { r }
     /\ settled' = Append(settled, [ id |-> r.id, ok |-> FALSE,
                                     value |-> message,
                                     pending |-> Others(r) ])
     /\ appError' = errText(message)
     /\ view' = v
     /\ UNCHANGED << gameCode, showCode, appPaused, prompt, editPrompt,
                     nReq >>
     /\ Render(v, gameCode, showCode, appPaused)
     /\ UNCHANGED nonAppVars

\* Mutant: the catch block also drops the game.
SettleErrClearsGame(r, message) ==
  LET v == IF r.previousView = "editing" THEN "playing" ELSE "landing"
  IN /\ AppReady
     /\ r \in requests
     /\ requests' = requests \ { r }
     /\ settled' = Append(settled, [ id |-> r.id, ok |-> FALSE,
                                     value |-> message,
                                     pending |-> Others(r) ])
     /\ appError' = errText(message)
     /\ gameCode' = Null
     /\ view' = v
     /\ UNCHANGED << showCode, appPaused, prompt, editPrompt, nReq >>
     /\ Render(v, Null, showCode, appPaused)
     /\ UNCHANGED nonAppVars

\* generateGameCode rejects with an Error carrying message: handleGenerate
\* resumes in its catch block.
SettleErr(r, message) ==
  LET v == IF r.previousView = "editing" THEN "playing" ELSE "landing"
  IN /\ AppReady
     /\ r \in requests
     /\ requests' = requests \ { r }
     /\ settled' = Append(settled, [ id |-> r.id, ok |-> FALSE,
                                     value |-> message,
                                     pending |-> Others(r) ])
     /\ appError' = errText(message)
     /\ view' = v
     /\ UNCHANGED << gameCode, showCode, appPaused, prompt, editPrompt,
                     nReq >>
     /\ Render(v, gameCode, showCode, appPaused)
     /\ UNCHANGED nonAppVars

\* handleGenerate called while an earlier call is still awaiting: nothing
\* in the function prevents it.
Reenter(text, isEdit) ==
  /\ AppReady
  /\ view = "generating"
  /\ requests # { }
  /\ handleGenerate(text, isEdit)
  /\ UNCHANGED nonAppVars

\* The same call explored further: with at most MaxReentries calls
\* outstanding it may take MaxReentries more request numbers than the calls
\* from the rendered controls.
ReenterLate(text, isEdit) ==
  /\ AppReady
  /\ view = "generating"
  /\ requests # { }
  /\ Cardinality(requests) <= MaxReentries
  /\ handleGenerateWithin(MaxRequests + MaxReentries, text, isEdit)
  /\ UNCHANGED nonAppVars

\* ----------------------------------------------------------- specifications
HistInit == previousStatus = "none" /\ fontLoadPromise = "null"

AuxInit == ComposeInit /\ RunsInit /\ VariantsInit /\ HistInit

Init == GenInit /\ HostInit /\ CfgInit /\ CleanInit /\ AppInit /\ AuxInit

GenNext ==
  \/ LoadModule
  \/ Generate
  \/ Invoke
  \/ \E raw \in RawTexts : Resolve(raw)
  \/ \E error \in BackendErrors : Reject(error)
  \/ TimerFires

Next == GenNext

Spec == Init /\ [][Next]_vars

\* The generateContent call in flight settles, whichever way: the step
\* that takes generateGameCode out of its await (a Resolve or a Reject).
AwaitEnds == pc = "await" /\ pc' \in { "ready", "sleep", "done" }

\* The event loop runs every continuation that is ready: the loop body is
\* entered, every generateContent call settles and every backoff timer
\* fires.
Fairness ==
  /\ WF_vars(Invoke)
  /\ WF_pc(AwaitEnds)
  /\ WF_vars(TimerFires)

SpecLive == Init /\ [][Next]_vars /\ Fairness

HostNext ==
  \/ \E src \in Sources, paused \in BOOLEAN : Mount(src, paused)
  \/ \E src \in Sources : SetCode(src)
  \/ \E flag \in BOOLEAN : SetSuspended(flag)
  \/ Unmount

NextHost == HostNext

SpecHost == Init /\ [][NextHost]_vars

\* The service under any configuration of the API key.
InitConfig ==
  GenInit /\ HostInit /\ CfgInitAny /\ CleanInit /\ AppInit /\ AuxInit

SpecConfig == InitConfig /\ [][Next]_vars

\* The cleanup on every text of at most MaxTextLen tokens.
InitSanitize ==
  GenInit /\ HostInit /\ CfgInit /\ CleanInitAny /\ AppInit /\ AuxInit

NextSanitize ==
  \/ Clean
  \/ CleanAgain

SpecSanitize == InitSanitize /\ [][NextSanitize]_vars

\* The prompt composition on every prompt of at most MaxPromptLen tokens
\* and every previous code of at most MaxPromptLen tokens, or none.
InitCompose ==
  /\ GenInit /\ HostInit /\ CfgInit /\ CleanInit /\ AppInit
  /\ ComposeInitAny /\ RunsInit /\ VariantsInit /\ HistInit

NextCompose == Compose

SpecCompose == InitCompose /\ [][NextCompose]_vars

\* Two runs of GamePreview given the same renders, with whatever program
\* in the iframe of each.
NextRuns ==
  \/ \E src \in Sources, paused \in BOOLEAN : RunMount(src, paused)
  \/ \E src \in Sources : RunSetCode(src)
  \/ \E flag \in BOOLEAN : RunSetSuspended(flag)
  \/ RunUnmount
  \/ \E i \in { 1, 2 }, kind \in Kinds : BoxLoads(i, kind)
  \/ \E i \in { 1, 2 } : BoxReceives(i)
  \/ \E i \in { 1, 2 }, msg \in SandboxMessages : BoxPosts(i, msg)

SpecRuns == Init /\ [][NextRuns]_vars

\* The variants of generateGameCode given the same request and the same
\* backend outcomes.
NextVariants ==
  \/ CallVariants
  \/ \E o \in Outcomes : Answer(o)

SpecVariants == Init /\ [][NextVariants]_vars

\* App as the rendered controls let the user drive it: while the view is
\* generating only the loading screen is rendered, so nothing can be
\* submitted until the request settles.
AppNext ==
  \/ LoadModule
  \/ \E text \in Prompts : TypePrompt(text)
  \/ SubmitPrompt
  \/ \E s \in SUGGESTIONS : Suggest(s)
  \/ \E text \in Prompts : TypeEdit(text)
  \/ SubmitEdit
  \/ CancelEdit
  \/ TogglePause
  \/ ToggleSource
  \/ EditButton
  \/ NewButton
  \/ LogoClick
  \/ \E r \in requests, c \in Sources : SettleOk(r, c)
  \/ \E r \in requests, message \in Failures : SettleErr(r, message)

NextApp == AppNext

SpecApp == Init /\ [][NextApp]_vars

\* handleGenerate as a function any caller may invoke again while an
\* earlier call is outstanding.
NextCaller ==
  \/ AppNext
  \/ \E text \in Prompts, isEdit \in BOOLEAN : Reenter(text, isEdit)

SpecCaller == Init /\ [][NextCaller]_vars

\* The same, with room for a re-entrant call after an edit of a running
\* game was submitted.
NextOverlap ==
  \/ AppNext
  \/ \E text \in Prompts, isEdit \in BOOLEAN : ReenterLate(text, isEdit)

SpecOverlap == Init /\ [][NextOverlap]_vars

\* =================================================================== claims
\* How the backend meant each failure, independently of the string
\* matching the service applies to it.
RateLimitInputs == { Err429, ErrQuotaRetryIn, ErrQuotaNotFound }
UnavailableInputs == { Err404, ErrUnsupported }
FatalInputs == { ErrServer }

Last(s) == s[Len(s)]
Count(s, x) == Cardinality({ i \in 1..Len(s) : s[i] = x })
HasPrefix(s, head) == Len(s) >= Len(head) /\ SubSeq(s, 1, Len(head)) = head
NonDecreasing(s) == \A i \in 1..(Len(s) - 1) : s[i] <= s[i + 1]
StrictlyIncreasing(s) == \A i \in 1..(Len(s) - 1) : s[i] < s[i + 1]

\* The settlements of the retry call that just ended are one terminal
\* failure: a rejection the backend meant as unavailable, or maxRetries
\* rate-limit rejections in a row.
TerminallyFailed ==
  /\ responses # << >>
  /\ ~Last(responses).ok
  /\ \A i \in 1..(Len(responses) - 1) :
       ~responses[i].ok /\ responses[i].error \in RateLimitInputs
  /\ \/ Last(responses).error \in UnavailableInputs
     \/ /\ Len(responses) = maxRetries
        /\ Last(responses).error \in RateLimitInputs

\* C1: within one generateGameCode call the backend calls are made one at a
\* time and in roster order from the first model on: a call is either the
\* first call to model 1, a retry of the same model after its backoff, or
\* the first call to the next model, made only once the previous model has
\* terminally failed and was recorded on failedModels as not found or as
\* quota exceeded.
C1_SequentialRosterOrder ==
  [][ /\ inFlight' <= 1
      /\ (invoked' # invoked /\ invoked' # << >>) =>
           /\ inFlight = 0
           /\ Len(invoked') = Len(invoked) + 1
           /\ SubSeq(invoked', 1, Len(invoked)) = invoked
           /\ IF invoked = << >>
                THEN Last(invoked') = 1
                ELSE \/ /\ Last(invoked') = Last(invoked)
                        /\ pc = "sleep"
                        /\ Len(delays) = Len(responses)
                     \/ /\ Last(invoked') = Last(invoked) + 1
                        /\ TerminallyFailed
                        /\ Len(failedModels) = Last(invoked)
                        /\ Last(failedModels) \in
                             { QuotaEntry(modelsToTry[Last(invoked)]),
                               NotFoundEntry(modelsToTry[Last(invoked)]) }
    ]_vars

C1_Witness ==
  /\ Len(invoked) >= 5
  /\ SubSeq(invoked, 1, 5) = << 1, 1, 1, 2, 3 >>
  /\ inFlight = 1

\* C2: when a model call resolves with raw text, generateGameCode resolves
\* with the cleaned-up text of that response; the models called so far are
\* exactly the roster positions 1..k in order, every model before k is on
\* failedModels, and no backend call of this generateGameCode follows.
C2_FirstSuccessWins ==
  [][ /\ (Len(responses') > Len(responses) /\ Last(responses').ok) =>
           /\ pc' = "done"
           /\ result' = Ok(Sanitize(Last(responses').text))
           /\ NonDecreasing(invoked')
           /\ { invoked'[i] : i \in 1..Len(invoked') } = 1..Last(invoked')
           /\ Len(failedModels') = Last(invoked') - 1
      /\ (result.status = "ok" /\ nGen' = nGen) =>
           (invoked' = invoked /\ inFlight' = 0 /\ result' = result)
    ]_vars

C2_Witness ==
  /\ result.status = "ok"
  /\ Last(invoked) = 3
  /\ hasQuotaErrors(failedModels)
  /\ has404Errors(failedModels)
  /\ result.text # Last(responses).text

\* C3: a rejection that is neither a rate limit nor an unavailable model
\* ends generateGameCode at once: no backoff follows it, no further model is
\* called, and the promise rejects with a fresh error carrying the message
\* of that rejection, not the aggregated diagnostic.
C3_FatalAborts ==
  (responses # << >> /\ ~Last(responses).ok
     /\ Last(responses).error \in FatalInputs) =>
    /\ pc = "done"
    /\ inFlight = 0
    /\ retryOutcome = "rethrown"
    /\ Len(delays) = Len(responses) - 1
    /\ Last(invoked) = modelIdx
    /\ Len(failedModels) = modelIdx - 1
    /\ result = Err(NewError(Last(responses).error.message))

C3_Witness ==
  /\ pc = "done"
  /\ Len(invoked) = 3
  /\ Last(invoked) = 2
  /\ Last(responses) = Rejected(ErrServer)
  /\ result.status = "err"

\* C4: whenever retryWithBackoff gives up on a rate-limit failure, the model
\* is recorded on failedModels as quota exceeded, whatever the original
\* error said, and generation goes on with the next model.
C4_ExhaustionIsQuota ==
  (retryOutcome = "exhausted") =>
    /\ Len(failedModels) = Last(invoked)
    /\ Last(failedModels) = QuotaEntry(modelsToTry[Last(invoked)])
    /\ modelIdx = Last(invoked) + 1

\* C5: once every model has failed, the diagnostic opens with the template
\* the recorded classifications select: all quota exceeded, all not found,
\* or mixed; exactly one of the three.
AllRecorded(Entry(_)) ==
  \A i \in 1..Len(failedModels) : failedModels[i] = Entry(modelsToTry[i])

C5_TemplateByMix ==
  (pc = "done" /\ Len(failedModels) = Len(modelsToTry)) =>
    LET msg == result.error.message
        expected == IF AllRecorded(QuotaEntry) THEN QuotaHead
                    ELSE IF AllRecorded(NotFoundEntry) THEN NotFoundHead
                    ELSE MixedHead
    IN /\ result.status = "err"
       /\ HasPrefix(msg, expected)
       /\ Cardinality({ h \in { QuotaHead, NotFoundHead, MixedHead } :
                          HasPrefix(msg, h) }) = 1
       /\ ~HasPrefix(msg, NoneHead)

C5_Witness ==
  /\ pc = "done"
  /\ Len(failedModels) = Len(modelsToTry)
  /\ ~AllRecorded(QuotaEntry)
  /\ ~AllRecorded(NotFoundEntry)
  /\ HasPrefix(result.error.message, MixedHead)

\* C6: once every model has failed, the diagnostic lists each roster model
\* once, in roster order, with the classification recorded for it, and its
\* last error is the message of the error the last model raised.
C6_DiagnosticListsAll ==
  (pc = "done" /\ Len(failedModels) = Len(modelsToTry)) =>
    LET raised == IF Len(responses) = maxRetries
                       /\ Last(responses).error \in RateLimitInputs
                    THEN RateLimitExceeded(Last(responses).error)
                    ELSE Last(responses).error
        tried == [ i \in 1..Len(modelsToTry) |-> failedModels[i] ]
    IN /\ Last(invoked) = Len(modelsToTry)
       /\ ~Last(responses).ok
       /\ \A i \in 1..Len(modelsToTry) :
            tried[i] \in { QuotaEntry(modelsToTry[i]),
                           NotFoundEntry(modelsToTry[i]) }
       /\ \E head \in { QuotaHead, NotFoundHead, MixedHead },
             advice \in { QuotaAdvice, NotFoundAdvice, MixedAdvice } :
            result.error.message =
              head \o tried[1] \o << "," >> \o tried[2] \o << "," >>
                   \o tried[3] \o << "," >> \o tried[4] \o << "," >>
                   \o tried[5] \o advice \o << "Last", "error:" >>
                   \o raised.message

C6_Witness ==
  /\ pc = "done"
  /\ Len(failedModels) = Len(modelsToTry)
  /\ failedModels[1] # NotFoundEntry(modelsToTry[1])
  /\ failedModels[2] = NotFoundEntry(modelsToTry[2])
  /\ retryOutcome = "exhausted"

\* Number of generateContent calls made by the retry call that is running
\* or has just ended.
RetryCalls == Count(invoked, Last(invoked))

\* C7: with maxRetries = 3, a call that is rejected twice with a rate-limit
\* error and then resolves returns that response after exactly three calls
\* and exactly two backoff delays, one after each rejected call: two
\* rate-limit rejections never end the retry loop, and every retry is
\* preceded by one delay.
C7_SucceedsOnThirdAttempt ==
  /\ (Len(responses) >= 2
        /\ \A i \in 1..2 :
             ~responses[i].ok /\ responses[i].error \in RateLimitInputs) =>
       /\ Len(responses) = 2 =>
            /\ retryOutcome = "pending"
            /\ \/ pc = "sleep" /\ RetryCalls = 2
               \/ pc = "await" /\ RetryCalls = 3
       /\ (Len(responses) = 3 /\ responses[3].ok) =>
            /\ retryOutcome = "ok"
            /\ result = Ok(Sanitize(responses[3].text))
            /\ RetryCalls = 3
            /\ Len(delays) = 2
  /\ pc = "sleep" => (Len(delays) = RetryCalls /\ Len(responses) = RetryCalls)
  /\ pc = "await" =>
       (Len(delays) = RetryCalls - 1 /\ Len(responses) = RetryCalls - 1)

C7_Witness ==
  /\ Len(responses) = 3
  /\ ~responses[1].ok
  /\ ~responses[2].ok
  /\ responses[3].ok
  /\ Len(delays) = 2
  /\ result.status = "ok"

\* C8 as stated: the backoff delays of one retry call are strictly
\* increasing whatever retry hints the successive failures carry.
C8_DelaysAlwaysIncrease == StrictlyIncreasing(delays)

\* C8 amended: the backoff delays of one retry call are strictly increasing
\* whenever no failure carries a smaller retry hint than the failure before
\* it (in particular when the hints are equal or absent).
C8_DelaysIncreaseForSteadyHints ==
  (\A i \in 1..(Len(delays) - 1) :
     extractRetryDelay(responses[i].error)
       <= extractRetryDelay(responses[i + 1].error)) =>
    StrictlyIncreasing(delays)

C8_Witness ==
  /\ Len(delays) = 2
  /\ responses[1].error = Err429
  /\ responses[2].error = ErrQuotaRetryIn
  /\ delays[1] < delays[2]

\* C9 as stated: a retry call that ends on a non-retryable failure has made
\* exactly one call and taken no delay, on whichever attempt that failure
\* occurs.
C9_NonRetryableOneCall ==
  (responses # << >> /\ ~Last(responses).ok
     /\ Last(responses).error \notin RateLimitInputs) =>
    /\ retryOutcome = "rethrown"
    /\ lastError = Last(responses).error
    /\ RetryCalls = 1
    /\ Len(delays) = 0

\* C9 amended: a non-retryable failure ends the retry call at once with that
\* same error: no delay and no call follow it.  When it occurs on attempt k
\* the call has been made exactly k times with k - 1 delays, so exactly one
\* call and no delay when it is the first attempt.
C9_NonRetryableRethrownAtOnce ==
  (responses # << >> /\ ~Last(responses).ok
     /\ Last(responses).error \notin RateLimitInputs) =>
    /\ retryOutcome = "rethrown"
    /\ pc \in { "ready", "done" }
    /\ inFlight = 0
    /\ lastError = Last(responses).error
    /\ RetryCalls = Len(responses)
    /\ Len(delays) = Len(responses) - 1
    /\ Len(responses) = 1 => (RetryCalls = 1 /\ Len(delays) = 0)

C9_Witness ==
  /\ Len(responses) = 2
  /\ Last(responses) = Rejected(Err404)
  /\ retryOutcome = "rethrown"
  /\ Len(delays) = 1

\* C10: at most one object URL is live at any time, and every
\* createObjectURL comes after the revokeObjectURL of each URL created
\* before it.
C10_OneLiveResource ==
  /\ Cardinality(LiveUrls) <= 1
  /\ cleanupUrl # 0 => LiveUrls = { cleanupUrl }
  /\ \A p \in 1..Len(urlLog) :
       urlLog[p].op = "create" =>
         \A q \in 1..(p - 1) :
           urlLog[q].op = "create" =>
             \E r \in (q + 1)..(p - 1) :
               urlLog[r] = [ op |-> "revoke", url |-> urlLog[q].url ]

C10_Witness ==
  /\ mounted
  /\ Len(signals) >= 2
  /\ Len(urlLog) = 3
  /\ urlLog[1].op = "create"
  /\ urlLog[2] = [ op |-> "revoke", url |-> urlLog[1].url ]
  /\ urlLog[3].op = "create"
  /\ LiveUrls = { urlLog[3].url }

\* C11: every newly mounted session starts with its pause flag false,
\* whatever the flag of the session it replaces: whenever GamePreview is
\* mounted, or creates the resource of a new source, its isPaused is false
\* after the step.
C11_NewSessionNotSuspended ==
  [][ (mounted' /\ nextUrl' > nextUrl) => ~isPaused' ]_vars

\* C12: while the component stays mounted, a change of isPaused posts
\* exactly one message, of type pause when the new value is true and resume
\* when it is false, and nothing else posts a message; so setting the flag
\* to true and then to false posts pause and then resume.
C12_PauseThenResume ==
  [][ (mounted /\ mounted') =>
        IF isPaused' # isPaused
          THEN signals' =
                 Append(signals, IF isPaused' THEN "pause" ELSE "resume")
          ELSE signals' = signals
    ]_vars

C12_Witness ==
  /\ mounted
  /\ ~isPaused
  /\ Len(signals) >= 3
  /\ SubSeq(signals, Len(signals) - 1, Len(signals)) = << "pause", "resume" >>

RevokeCount(log, u) ==
  Cardinality({ i \in 1..Len(log) : log[i] = [ op |-> "revoke", url |-> u ] })

\* C13: an object URL is never revoked twice nor before it is created; each
\* created URL except the one of the current session has been revoked
\* exactly once, and once the component is unmounted none is live.
C13_ReleasedExactlyOnce ==
  /\ \A u \in Created(urlLog) :
       RevokeCount(urlLog, u) = IF mounted /\ u = cleanupUrl THEN 0 ELSE 1
  /\ \A i \in 1..Len(urlLog) :
       urlLog[i].op = "revoke" =>
         \E j \in 1..(i - 1) :
           urlLog[j] = [ op |-> "create", url |-> urlLog[i].url ]
  /\ ~mounted => LiveUrls = { }

C13_Witness ==
  /\ ~mounted
  /\ Len(urlLog) = 4
  /\ urlLog[2] = [ op |-> "revoke", url |-> 1 ]
  /\ urlLog[4] = [ op |-> "revoke", url |-> 2 ]

\* C14: cleaning up a cleaned-up text changes nothing.
C14_Idempotent == cleanPc = "twice" => cleanTwice = clean

FirstStart(t) ==
  CHOOSE i \in 1..Len(t) :
    t[i] \in StartMarkers /\ \A j \in 1..(i - 1) : t[j] \notin StartMarkers

RECURSIVE IsSubsequence(_, _)
IsSubsequence(a, b) ==
  IF Len(a) = 0 THEN TRUE
  ELSE IF Len(b) = 0 THEN FALSE
  ELSE IF a[1] = b[1] THEN IsSubsequence(Tail(a), Tail(b))
  ELSE IsSubsequence(a, Tail(b))

\* C15: when the response text contains a start marker, the cleaned-up text
\* begins with the first such marker and holds nothing of what preceded it.
C15_BeginsAtStartMarker ==
  (cleanPc # "raw" /\ \E i \in 1..Len(rawIn) : rawIn[i] \in StartMarkers) =>
    /\ clean # << >>
    /\ clean[1] = rawIn[FirstStart(rawIn)]
    /\ IsSubsequence(clean, SubSeq(rawIn, FirstStart(rawIn), Len(rawIn)))

C15_Witness ==
  /\ cleanPc = "once"
  /\ rawIn = << "Here", "<html>", "<canvas>" >>
  /\ clean = << "<html>", "<canvas>" >>

\* C16: when the response text holds prose after the closing html tag, the
\* cleaned-up text ends with that tag.
C16_EndsAtEndMarker ==
  (cleanPc # "raw"
     /\ \E i \in 1..(Len(rawIn) - 1) :
          /\ rawIn[i] = "</html>"
          /\ \A j \in (i + 1)..Len(rawIn) : rawIn[j] \in { "Here", " ", "\n" }
          /\ \E j \in (i + 1)..Len(rawIn) : rawIn[j] = "Here") =>
    (clean # << >> /\ Last(clean) = "</html>")

\* C17: whenever generateGameCode rejects, it rejects with a freshly built
\* error that carries a non-empty message and nothing else: never the error
\* object the backend raised.
C17_RejectsWithMessageOnly ==
  result.status = "err" =>
    /\ Len(result.error.message) > 0
    /\ result.error = NewError(result.error.message)
    /\ result.error \notin BackendErrors
    /\ pc = "done"

C17_Witness ==
  /\ result.status = "err"
  /\ Last(responses) = Rejected(ErrServer)
  /\ result.error.message = ErrServer.message
  /\ result.error # ErrServer

\* C18: when neither VITE_API_KEY nor API_KEY is set, evaluating the module
\* fails with the configuration error, the client is never constructed and
\* no backend call is ever made.
C18_NoKeyNoCall ==
  (env.VITE_API_KEY = Unset /\ env.API_KEY = Unset) =>
    /\ genAI \in { "unloaded", "failed" }
    /\ getApiKey(env).threw
    /\ nGen = 0
    /\ pc = "idle"
    /\ invoked = << >>
    /\ inFlight = 0

C18_Witness ==
  /\ env = [ VITE_API_KEY |-> Unset, API_KEY |-> Unset ]
  /\ genAI = "failed"


\* How often the settlement of request id was handed to handleGenerate.
HandedOff(id) ==
  Cardinality({ i \in 1..Len(settled) : settled[i].id = id })

ExactlyOnce ==
  \A id \in 1..nReq :
    IF id \in { r.id : r \in requests }
      THEN HandedOff(id) = 0
      ELSE HandedOff(id) = 1

\* C19: each completed request is applied exactly once and whole: a
\* request is handed off once when it settles and never while it is
\* pending; on Ok the game code is replaced by the result, the view is
\* playing, no error is set and a shown preview runs the result; on Err
\* the message becomes the error and the game code stays as it was.
C19_AppliedOnceAndWhole ==
  [][ /\ ExactlyOnce'
      /\ Len(settled') > Len(settled) =>
           LET s == settled'[Len(settled')]
           IN IF s.ok
                THEN /\ gameCode' = s.value
                     /\ view' = "playing"
                     /\ appError' = Null
                     /\ Shown(view', gameCode', showCode') =>
                          mounted' /\ code' = s.value
                ELSE /\ appError' = s.value
                     /\ gameCode' = gameCode
                     /\ view' \in { "landing", "playing" }
                     /\ mounted' => code' = gameCode ]_vars

\* A game was generated and an edit of it failed: the first game is still
\* the one that runs and the failure is the current error.
C19_Witness ==
  /\ Len(settled) = 2
  /\ settled[1].ok
  /\ ~settled[2].ok
  /\ requests = { }
  /\ appError = settled[2].value
  /\ gameCode = settled[1].value
  /\ view = "playing"
  /\ mounted
  /\ code = gameCode

\* C20: when two requests overlap and both succeed, the one that resolves
\* last decides the game: at the step a request resolves after a request
\* it overlapped with has resolved, the game code becomes its result, a
\* mounted preview runs its result, and the preview is mounted when the
\* result is non-empty and the source view is off.
C20_LastResolvedWins ==
  [][ ( /\ Len(settled') > Len(settled)
        /\ settled'[Len(settled')].ok
        /\ \E i \in 1..Len(settled) :
             settled[i].ok /\ settled'[Len(settled')].id \in settled[i].pending )
      => LET s == settled'[Len(settled')]
         IN /\ gameCode' = s.value
            /\ mounted' => code' = s.value
            /\ (Truthy(s.value) /\ ~showCode') => mounted' ]_vars

\* The request issued second resolved first, the one issued first resolved
\* last with another source, and that source is the one mounted.
C20_Witness ==
  /\ Len(settled) = 2
  /\ settled[1].id = 2
  /\ settled[2].id = 1
  /\ settled[1].ok
  /\ settled[2].ok
  /\ 1 \in settled[1].pending
  /\ settled[1].value # settled[2].value
  /\ gameCode = settled[2].value
  /\ mounted
  /\ code = settled[2].value

\* C21: the result of a superseded request is discarded: when a request
\* settles after a newer request was issued, the step changes neither the
\* game code, nor the mounted source, nor the view, nor the error.
C21_SupersededDiscarded ==
  [][ ( /\ Len(settled') > Len(settled)
        /\ settled'[Len(settled')].id < nReq )
      => /\ gameCode' = gameCode
         /\ view' = view
         /\ appError' = appError
         /\ mounted' = mounted
         /\ code' = code ]_vars

EditMarkers == { "REQUEST:", "EXISTING CODE:" }
HasMarker(t) == \E i \in 1..Len(t) : t[i] \in EditMarkers

\* C22 as stated: for a non-empty prompt without previous code the
\* composed prompt contains the prompt and none of the edit framing
\* markers.
C22_NoEditMarkers ==
  (composePc = "composed" /\ ~priorSource.present /\ userText # << >>)
    => Includes(composed, userText) /\ ~HasMarker(composed)

\* C22 amended: for a non-empty prompt without previous code the composed
\* prompt is the prompt with text before and after it, and the text
\* before and after it contains none of the edit framing markers.
C22_NoEditFraming ==
  (composePc = "composed" /\ ~priorSource.present /\ userText # << >>)
    => \E i \in 0..(Len(composed) - Len(userText)) :
         /\ SubSeq(composed, i + 1, i + Len(userText)) = userText
         /\ ~HasMarker(SubSeq(composed, 1, i))
         /\ ~HasMarker(SubSeq(composed, i + Len(userText) + 1, Len(composed)))

C22_Witness ==
  /\ composePc = "composed"
  /\ ~priorSource.present
  /\ userText = << "snake", "faster" >>
  /\ Includes(composed, userText)
  /\ Len(composed) > Len(userText)

\* C23: when previous code is given, the empty string included, the
\* composed prompt contains the request after the REQUEST marker and the
\* whole previous code after the EXISTING CODE marker.
C23_EditFraming ==
  (composePc = "composed" /\ priorSource.present)
    => /\ Includes(composed, << "REQUEST:" >> \o userText)
       /\ \E j \in 1..Len(composed) :
            /\ composed[j] = "EXISTING CODE:"
            /\ Includes(SubSeq(composed, j + 1, Len(composed)),
                        priorSource.text)

\* The retry delay the server put into the error, in milliseconds, and
\* 5000 when it put none (hints are in tenths of a second).
HintMs(e) ==
  IF e.jsonRetryDelay # NoHint THEN e.jsonRetryDelay * 100
  ELSE IF e.msgRetryIn # NoHint THEN e.msgRetryIn * 100
  ELSE 5000

\* C25: the delay taken after the failure of attempt a (0-based) is
\* exactly hint + 1000 * 2^a milliseconds, hint being the server's retry
\* delay or 5000 without one: 6000 then 7000 when no failure has a hint.
C25_ExactDelay ==
  /\ \A i \in 1..Len(delays) :
       /\ ~responses[i].ok
       /\ delays[i] = HintMs(responses[i].error) + 1000 * Pow2(i - 1)
  /\ ( /\ Len(delays) = 2
       /\ \A i \in 1..2 : /\ responses[i].error.jsonRetryDelay = NoHint
                          /\ responses[i].error.msgRetryIn = NoHint )
     => delays = << 6000, 7000 >>

C25_Witness ==
  /\ delays = << 6000, 12000 >>
  /\ responses[1].error = Err429
  /\ responses[2].error = ErrQuotaRetryIn
  /\ pc = "sleep"

\* C26: in one generateGameCode call every model is called at most 3
\* times and takes at most 2 delays, a delay is taken only while attempts
\* remain, none after the third failure, and at most 15 calls are made.
C26_BoundedAttempts ==
  /\ \A m \in 1..Len(modelsToTry) : Count(invoked, m) <= 3
  /\ Len(delays) <= 2
  /\ Len(responses) <= 3
  /\ (pc = "sleep") => (Len(responses) < 3 /\ Len(delays) = Len(responses))
  /\ (retryOutcome = "exhausted") => (Len(responses) = 3 /\ Len(delays) = 2)
  /\ Len(invoked) <= 15

C26_Witness ==
  /\ pc = "done"
  /\ Len(invoked) = 15
  /\ AllRecorded(QuotaEntry)
  /\ Len(delays) = 2

\* C27: every generateGameCode call eventually resolves or rejects, given
\* that every backend call settles and every backoff timer fires.
C27_EventuallySettles ==
  (pc \in { "ready", "await", "sleep" }) ~> (pc = "done")

C27_Witness ==
  /\ pc = "done"
  /\ result.status = "err"
  /\ Len(invoked) = 15
  /\ Len(failedModels) = 5
  /\ failedModels[5] = QuotaEntry(modelsToTry[5])
  /\ failedModels[1] = NotFoundEntry(modelsToTry[1])

\* The text between the first and the last token that is not whitespace.
Core(t) ==
  LET solid == { i \in 1..Len(t) : t[i] \notin { " ", "\n" } }
  IN IF solid = { } THEN << >>
     ELSE SubSeq(t, CHOOSE i \in solid : \A j \in solid : i <= j,
                    CHOOSE i \in solid : \A j \in solid : i >= j)

Plain(t) ==
  \A i \in 1..Len(t) :
    t[i] \notin ({ Fence, "</html>" } \cup StartMarkers)

\* C28: the cleanup returns a text for every raw text, the empty one
\* included, and for a raw text without fence or boundary marker it
\* returns that text without its leading and trailing whitespace.
C28_PlainTextTrimmed ==
  (cleanPc # "raw") =>
    /\ clean \in Seq(TextTokens)
    /\ Plain(rawIn) => clean = Core(rawIn)

C28_Witness ==
  /\ cleanPc = "once"
  /\ rawIn = << " ", "Here", "\n" >>
  /\ clean = << "Here" >>

\* C30: whenever the pause flag of the host is true, the session that is
\* mounted has been sent a pause signal since it was loaded: every step
\* that loads a session while the flag is true, mounts the preview with
\* the flag true, or sets the flag true on a mounted preview also posts a
\* pause signal.
C30_PausedSessionSignalled ==
  [][ ( /\ mounted'
        /\ isPaused'
        /\ (nextUrl' > nextUrl \/ ~mounted \/ ~isPaused) )
      => /\ Len(signals') = Len(signals) + 1
         /\ signals'[Len(signals')] = "pause" ]_vars

\* C24: every control signal the host emits is of type pause or resume,
\* pause exactly when the flag of the host is true at that moment, and a
\* request to suspend or resume sets the flag to the requested value
\* whatever the program in the iframe does with the signal.
C24_SignalMatchesFlag ==
  [][ \A i \in { 1, 2 } :
        /\ runs'[i].host.signals # runs[i].host.signals =>
             \E t \in { "pause", "resume" } :
               /\ runs'[i].host.signals = Append(runs[i].host.signals, t)
               /\ (t = "pause") <=> runs'[i].host.isPaused
        /\ (lastInput' # lastInput /\ lastInput'.op = "setSuspended") =>
             runs'[i].host.isPaused = lastInput'.flag ]_vars

\* The host was asked to suspend and holds the flag, while the program in
\* the iframe was handed the signal and kept running.
C24_Witness ==
  /\ lastInput.op = "setSuspended"
  /\ lastInput.flag
  /\ runs[1].host.isPaused
  /\ Last(runs[1].host.signals) = "pause"
  /\ runs[1].box.kind = "deaf"
  /\ runs[1].box.seen = Len(runs[1].host.signals)
  /\ ~runs[1].box.paused

Live(h) == Created(h.urlLog) \ Revoked(h.urlLog)

\* C29: two runs given the same renders and unmounts have the same host
\* state (mounted source, pause flag, live resource) and have emitted the
\* same control signals, whatever the programs in their iframes do.
C29_HostIgnoresSandbox ==
  /\ runs[1].host.mounted = runs[2].host.mounted
  /\ runs[1].host.code = runs[2].host.code
  /\ runs[1].host.isPaused = runs[2].host.isPaused
  /\ runs[1].host.iframeSrc = runs[2].host.iframeSrc
  /\ Live(runs[1].host) = Live(runs[2].host)
  /\ runs[1].host.signals = runs[2].host.signals

\* One program obeyed the pause signal, the other ignored it and posted a
\* message to the host.
C29_Witness ==
  /\ runs[1].host.mounted
  /\ runs[1].host.isPaused
  /\ runs[1].box.kind = "obedient"
  /\ runs[1].box.paused
  /\ runs[2].box.kind = "deaf"
  /\ runs[2].box.posted = 1
  /\ runs[2].box.seen = Len(runs[2].host.signals)
  /\ ~runs[2].box.paused

\* C31: whenever the view is playing or editing a generated source is
\* present (gameCode is not null), for any interleaving of user actions
\* and completions of overlapping requests.
C31_SourcePresentWhilePlaying ==
  view \in { "playing", "editing" } => gameCode # Null

\* C32: generateGameCode keeps no orchestration state between calls:
\* every call starts at the first model of the roster with no failure
\* recorded, no last error and no attempt made, whatever the call before
\* did; and at every moment of a call the models it has tried are the
\* roster positions 1..k in order and its failure record lists exactly the
\* models before the current one, so both are determined by what the
\* backend answered during this call.
C32_NoStateBetweenCalls ==
  [][ /\ nGen' # nGen =>
           /\ modelIdx' = 1
           /\ attempt' = 0
           /\ lastError' = NoError
           /\ failedModels' = << >>
           /\ invoked' = << >>
           /\ result' = Pending
      /\ invoked' # << >> =>
           /\ invoked'[1] = 1
           /\ NonDecreasing(invoked')
           /\ { invoked'[i] : i \in 1..Len(invoked') } = 1..Last(invoked')
      /\ \A i \in 1..Len(failedModels') :
           /\ i \in { invoked'[k] : k \in 1..Len(invoked') }
           /\ failedModels'[i] \in { QuotaEntry(modelsToTry[i]),
                                    NotFoundEntry(modelsToTry[i]) }
      /\ pc' \in { "ready", "await", "sleep" } =>
           Len(failedModels') = modelIdx' - 1 ]_vars

\* The first call was rejected and left the font cache filled; the second
\* call went to the first model again and succeeded at once.
C32_Witness ==
  /\ nGen = 2
  /\ previousStatus = "err"
  /\ pc = "done"
  /\ result.status = "ok"
  /\ invoked = << 1 >>
  /\ failedModels = << >>
  /\ fontLoadPromise # "null"

\* What two variants decided so far: whether they are still calling or
\* settled, Ok or Err, the calls made per candidate, the delays of the
\* current candidate and the classification recorded per failed candidate.
Classes(st) ==
  [ i \in 1..Len(st.failedModels) |->
      IF Includes(st.failedModels[i], << "quota" >>)
        THEN "quota" ELSE "notFound" ]

SameDecisions(a, b) ==
  LET n == IF Len(a.tries) < Len(b.tries) THEN Len(a.tries) ELSE Len(b.tries)
  IN /\ a.status = b.status
     /\ a.delays = b.delays
     /\ \A i \in 1..n : a.tries[i] = b.tries[i]
     /\ (a.pc = "done" /\ b.pc = "done" /\ a.status = "err") =>
          a.message = b.message

\* C33 as stated: all the variants of the source, run side by side on the
\* same backend outcomes, make the same retry, fallback and abort
\* decisions.
C33_VariantsAgree ==
  \A a, b \in VariantNames : SameDecisions(variants[a], variants[b])

\* C33 amended: the complete variant and the service variant make the same
\* decisions: same calls per candidate, same delays, same Ok or Err, same
\* failure record and same diagnostic.
C33_CompleteAndServiceAgree ==
  /\ SameDecisions(variants["complete"], variants["service"])
  /\ variants["complete"].pc = variants["service"].pc
  /\ variants["complete"].modelIdx = variants["service"].modelIdx
  /\ variants["complete"].tries = variants["service"].tries
  /\ Classes(variants["complete"]) = Classes(variants["service"])
  /\ variants["complete"].failedModels = variants["service"].failedModels
  /\ variants["complete"].message = variants["service"].message

\* Both variants retried the first candidate to exhaustion, fell back to
\* the second and got the same raw text; their cleanups make different
\* sources of it.
C33_Witness ==
  /\ variants["complete"].pc = "done"
  /\ variants["complete"].status = "ok"
  /\ variants["service"].status = "ok"
  /\ variants["complete"].tries[1] = 3
  /\ variants["complete"].tries[2] = 1
  /\ Classes(variants["service"]) = << "quota" >>
  /\ variants["complete"].text # variants["service"].text

====
